---- MODULE Spec2Model ----
(***************************************************************************)
(* A model of LineChart.tsx: the LineChart component (re-render            *)
(* suppression, pointer handlers, style resolution, line segmentation)     *)
(* and the LabelAxis component (scale annotations and title layout).       *)
(*                                                                         *)
(* JavaScript values are records with a type tag `t`, so that values of    *)
(* different JavaScript types can be compared.                             *)
(***************************************************************************)
EXTENDS Integers, Sequences, FiniteSets, TLC

VARIABLES
    props,         \* this.props of the mounted LineChart
    displayed,     \* what the last executed render() returned (or threw)
    scu,           \* what the last shouldComponentUpdate(nextProps) returned
    defaultStyle,  \* the module-level defaultLineChartChannelStyle object
    events,        \* the pointer events dispatched to hit-target strokes
    effects,       \* what the handlers did, in order (calls, stopPropagation)
    axisProps,     \* this.props of the LabelAxis
    axisOut        \* what LabelAxis.render() returned

vars == <<props, displayed, scu, defaultStyle, events, effects, axisProps, axisOut>>

lineVars == <<props, displayed, scu, defaultStyle, events, effects>>
axisVars == <<axisProps, axisOut>>

(***************************************************************************)
(* Bounds of the model.                                                    *)
(***************************************************************************)
MaxLen == 5        \* longest series drawn by the segmentation specification
MaxVaried == 2     \* most props in which a prop set differs from the base set
MaxEvents == 3     \* most pointer events dispatched in one behaviour

(***************************************************************************)
(* JavaScript values.                                                      *)
(***************************************************************************)
Num(n) == [t |-> "number", v |-> n]
Null == [t |-> "null", v |-> 0]
NaN == [t |-> "NaN", v |-> 0]
PosInf == [t |-> "Infinity", v |-> 1]
NegInf == [t |-> "Infinity", v |-> -1]
Undefined == [t |-> "undefined", v |-> 0]

Str(s) == [t |-> "string", s |-> s]
NoName == [t |-> "undefined", s |-> ""]

\* JavaScript truthiness of an optional string prop: undefined and "" are falsy.
Truthy(x) == x.t = "string" /\ x.s # ""

\* column === prop, for a string column and an optional string prop.
StrictEq(column, x) == x.t = "string" /\ x.s = column

(***************************************************************************)
(* The series: events in time order, each with an interval key and a       *)
(* value per column (Undefined when the event does not carry the column).  *)
(***************************************************************************)
Columns == {"a", "b"}

Key(i) == [begin |-> 100 * i, end |-> 100 * i + (IF i % 2 = 0 THEN 0 ELSE 60)]

Rows ==
    { [a |-> Num(1), b |-> Num(2)],
      [a |-> Num(3), b |-> Null],
      [a |-> NaN, b |-> Num(4)],
      [a |-> PosInf, b |-> NegInf],
      [a |-> Undefined, b |-> Undefined] }

MkSeries(rows) == [i \in 1..Len(rows) |-> [key |-> Key(i), data |-> rows[i]]]

\* series.size()
Size(series) == Len(series)

\* d.get(column)
Get(d, column) == d.data[column]

(***************************************************************************)
(* lodash predicates used by renderLine.                                   *)
(***************************************************************************)
IsNull(value) == value.t = "null"
IsNaN(value) == value.t = "NaN"
IsFinite(value) == value.t = "number"

\* const badPoint = _.isNull(value) || _.isNaN(value) || !_.isFinite(value)
BadPointMissesNaN(value) == IsNull(value) \/ value.t \in {"Infinity", "undefined"}
BadPoint(value) == IsNull(value) \/ IsNaN(value) \/ ~IsFinite(value)

\* new Date(d.begin().getTime() + (d.end().getTime() - d.begin().getTime()) / 2)
Timestamp(d) == d.key.begin + (d.key.end - d.key.begin) \div 2

Point(d, column) == [x |-> Timestamp(d), y |-> Get(d, column).v]

(***************************************************************************)
(* Styles.  A bundle of visual attributes is a function from attribute     *)
(* names to values; `has` tells a present entry from an absent (falsy) one.*)
(***************************************************************************)
States == {"normal", "highlighted", "selected", "muted"}

Absent == [has |-> FALSE, attrs |-> << >>]
Given(attrs) == [has |-> TRUE, attrs |-> attrs]

\* import { defaultLineChartChannelStyle as defaultStyle } from "./style"
DefaultLineChartChannelStyle ==
    [line |->
        [normal |-> [stroke |-> "steelblue", fill |-> "none", strokeWidth |-> "1"],
         highlighted |-> [stroke |-> "#5a98cb", fill |-> "none", strokeWidth |-> "1"],
         selected |-> [stroke |-> "steelblue", fill |-> "none", strokeWidth |-> "2"],
         muted |-> [stroke |-> "steelblue", fill |-> "none", opacity |-> "0.4",
                    strokeWidth |-> "1"]]]

\* A channel style the caller supplies: an optional `line` sub-bundle and the
\* state entries that sit on the object itself.
UndefinedStyle == [t |-> "undefined"]
ChannelStyle(line, own) == [t |-> "object", line |-> line, own |-> own]
NoLine == [has |-> FALSE, states |-> [st \in States |-> Absent]]
Line(states) == [has |-> TRUE, states |-> states]

\* {line: {normal: .., highlighted: .., selected: .., muted: ..}}
FullChannel(tag) ==
    ChannelStyle(Line([st \in States |-> Given([stroke |-> st, tag |-> tag])]),
                 [st \in States |-> Absent])

\* {normal: .., selected: ..}: no `line` key, two states overridden.
FlatChannel(tag) ==
    ChannelStyle(NoLine,
                 [st \in States |->
                     IF st \in {"normal", "selected"}
                     THEN Given([opacity |-> st, tag |-> tag])
                     ELSE Absent])

\* {line: {..}} whose four bundles ask for the visible stroke's pointer events.
ClickableChannel(tag) ==
    ChannelStyle(Line([st \in States |->
                          Given([stroke |-> st, pointerEvents |-> "all", tag |-> tag])]),
                 [st \in States |-> Absent])

\* The three variants of the `style` prop, and the prop left out.
NoStyle == [kind |-> "undefined"]
StyleObject(entries) == [kind |-> "object", entries |-> entries]
StylerInstance(entries) == [kind |-> "Styler", lineChartStyle |-> entries]
\* A function: what it returns per column, and its own properties (a plain
\* function object has none under a column's name).
StyleFunction(result) ==
    [kind |-> "function", result |-> result,
     entries |-> [c \in Columns |-> UndefinedStyle]]

\* if (this.props.style)
StyleTruthy(style) == style.kind # "undefined"
\* this.props.style instanceof Styler
InstanceOfStyler(style) == style.kind = "Styler"
\* _.isObject(value): true of objects and of functions
IsObject(style) == style.kind \in {"object", "Styler", "function"}

providedPathStyleMap(p, column) ==
    IF StyleTruthy(p.style)
    THEN IF InstanceOfStyler(p.style)
         THEN p.style.lineChartStyle[column]
         ELSE IF IsObject(p.style)
              THEN p.style.entries[column]
              ELSE p.style.result[column]
    ELSE UndefinedStyle

\* _.merge(true, d, o): the attributes of d overlaid with those of o, on a
\* fresh object.
Merge(d, o) ==
    [k \in (DOMAIN d) \cup (DOMAIN o) |-> IF k \in DOMAIN o THEN o[k] ELSE d[k]]

\* style.pointerEvents = "none"
SetPointerEventsUnlessGiven(style, v) ==
    [k \in (DOMAIN style) \cup {"pointerEvents"} |->
        IF k \in DOMAIN style THEN style[k] ELSE v]
SetPointerEvents(style, v) ==
    [k \in (DOMAIN style) \cup {"pointerEvents"} |->
        IF k = "pointerEvents" THEN v ELSE style[k]]

\* The branch of pathStyle taken for a column.
pathStyleStateMutedFirst(p, column) ==
    IF Truthy(p.selection)
    THEN IF StrictEq(column, p.selection) THEN "selected" ELSE "muted"
    ELSE IF Truthy(p.highlight) /\ StrictEq(column, p.highlight)
         THEN "highlighted"
         ELSE "normal"
pathStyleState(p, column) ==
    LET isHighlighted == Truthy(p.highlight) /\ StrictEq(column, p.highlight)
        isSelected == Truthy(p.selection) /\ StrictEq(column, p.selection)
    IN  IF Truthy(p.selection)
        THEN IF isSelected THEN "selected"
             ELSE IF isHighlighted THEN "highlighted"
             ELSE "muted"
        ELSE IF isHighlighted THEN "highlighted"
             ELSE "normal"

Threw == [status |-> "threw"]
Returned(value) == [status |-> "ok", value |-> value]

\* pathStyle(element, column), element = "line": the style, or a TypeError
\* when the column's style map is undefined (styleMap[element]).
pathStyleDefaultsWhenUndefined(p, dflt, column) ==
    LET styleMap == providedPathStyleMap(p, column)
        st == pathStyleState(p, column)
    IN  IF styleMap.t = "undefined"
        THEN Returned(SetPointerEvents(dflt.line[st], "none"))
        ELSE LET s == IF styleMap.line.has THEN styleMap.line.states ELSE styleMap.own
             IN  Returned(SetPointerEvents(
                     Merge(dflt.line[st], IF s[st].has THEN s[st].attrs ELSE << >>),
                     "none"))
pathStyle(p, dflt, column) ==
    LET styleMap == providedPathStyleMap(p, column)
    IN  IF styleMap.t = "undefined"
        THEN Threw
        ELSE LET d == dflt.line
                 s == IF styleMap.line.has THEN styleMap.line.states ELSE styleMap.own
                 st == pathStyleState(p, column)
                 style == Merge(d[st], IF s[st].has THEN s[st].attrs ELSE << >>)
             IN  Returned(SetPointerEvents(style, "none"))

(***************************************************************************)
(* Rendering.                                                              *)
(***************************************************************************)
\* A scale function applied to a value: the pixel depends on the mapping
\* (domain and range), not on which scale object carries it.
Apply(scale, v) == [scale |-> scale.str, of |-> v]

hitStyle ==
    [stroke |-> "white", fill |-> "none", opacity |-> "0.0", strokeWidth |-> "7",
     cursor |-> "crosshair", pointerEvents |-> "stroke"]

\* line().curve(curves[interpolation]).x(..).y(..)(data)
PathOf(p, data) ==
    [curve |-> p.interpolation,
     pts |-> [i \in 1..Len(data) |->
                 <<Apply(p.timeScale, data[i].x), Apply(p.yScale, data[i].y)>>]]

\* renderPath(data, column, key): the <g> with the visible stroke and the
\* hit-target stroke, whose three handlers are bound to the column.
renderPath(p, dflt, data, column, key) ==
    LET path == PathOf(p, data)
        style == pathStyle(p, dflt, column)
    IN  IF style = Threw
        THEN Threw
        ELSE Returned([key |-> key,
                       visible |-> [d |-> path, style |-> style.value],
                       hit |-> [d |-> path, style |-> hitStyle,
                                onClick |-> column,
                                onMouseLeave |-> TRUE,
                                onMouseMove |-> column]])

\* The state of renderLine's loop with breakLine: currentPoints (null when
\* not open), the segments pushed so far with their keys, and count.
NoPoints == [open |-> FALSE, pts |-> << >>]
LoopStart == [currentPoints |-> NoPoints, pushed |-> << >>, count |-> 1]

Push(acc, pts) ==
    [acc EXCEPT !.pushed = Append(@, [data |-> pts, key |-> acc.count]),
                !.count = @ + 1]

\* The body of the forEach callback with breakLine = true.
BreakStepKeepsSingles(acc, d, column) ==
    IF ~BadPoint(Get(d, column))
    THEN [acc EXCEPT !.currentPoints =
             [open |-> TRUE, pts |-> Append(acc.currentPoints.pts, Point(d, column))]]
    ELSE IF acc.currentPoints.open
         THEN [Push(acc, acc.currentPoints.pts) EXCEPT !.currentPoints = NoPoints]
         ELSE acc
BreakStep(acc, d, column) ==
    IF ~BadPoint(Get(d, column))
    THEN [acc EXCEPT !.currentPoints =
             [open |-> TRUE, pts |-> Append(acc.currentPoints.pts, Point(d, column))]]
    ELSE IF acc.currentPoints.open
         THEN [(IF Len(acc.currentPoints.pts) > 1
                THEN Push(acc, acc.currentPoints.pts)
                ELSE acc) EXCEPT !.currentPoints = NoPoints]
         ELSE acc

RECURSIVE BreakLoop(_, _, _, _)
BreakLoop(acc, series, i, column) ==
    IF i > Len(series)
    THEN acc
    ELSE BreakLoop(BreakStep(acc, series[i], column), series, i + 1, column)

\* After the loop: the open segment is pushed when it has more than one point.
BreakSegmentsDropsOpenRun(series, column) ==
    BreakLoop(LoopStart, series, 1, column).pushed
BreakSegments(series, column) ==
    LET acc == BreakLoop(LoopStart, series, 1, column)
    IN  IF acc.currentPoints.open /\ Len(acc.currentPoints.pts) > 1
        THEN Push(acc, acc.currentPoints.pts).pushed
        ELSE acc.pushed

\* The forEach with breakLine = false: bad points are skipped.
RECURSIVE CleanedPoints(_, _, _)
CleanedPoints(series, i, column) ==
    IF i = 0
    THEN << >>
    ELSE LET before == CleanedPoints(series, i - 1, column)
         IN  IF ~BadPoint(Get(series[i], column))
             THEN Append(before, Point(series[i], column))
             ELSE before

CleanSegments(series, column) ==
    << [data |-> CleanedPoints(series, Len(series), column), key |-> 1] >>

\* The (data, key) pairs renderLine hands to renderPath, in order.
SegmentsOf(p, column) ==
    IF p.breakLine
    THEN BreakSegments(p.series, column)
    ELSE CleanSegments(p.series, column)

\* renderLine(column): <g key={column}>{pathLines}</g>, or the exception of
\* the first renderPath call.
renderLine(p, dflt, column) ==
    LET segs == SegmentsOf(p, column)
        paths == [i \in 1..Len(segs) |->
                     renderPath(p, dflt, segs[i].data, column, segs[i].key)]
    IN  IF \E i \in 1..Len(segs) : paths[i] = Threw
        THEN Threw
        ELSE Returned([key |-> column,
                       pathLines |-> [i \in 1..Len(segs) |-> paths[i].value]])

\* renderLines(): _.map(this.props.columns, column => this.renderLine(column))
renderLines(p, dflt) ==
    LET lines == [i \in 1..Len(p.columns.items) |->
                     renderLine(p, dflt, p.columns.items[i])]
    IN  IF \E i \in 1..Len(lines) : lines[i] = Threw
        THEN Threw
        ELSE Returned([i \in 1..Len(lines) |-> lines[i].value])

\* render(): <g>{this.renderLines()}</g>
render(p, dflt) == renderLines(p, dflt)

\* The objects a pathStyle call shares with its caller and with later calls
\* (the imported default style, this.props.style), as they are after the call.
\* _.merge(true, d[state], s[state] or {}) assigns onto its first argument,
\* Object(true), a new object at each call; d[state] and s[state] are sources
\* and are only read.  style.pointerEvents = "none" is set on the object
\* merge returned.
pathStyleSharedMergesOntoDefault(p, dflt, column) ==
    LET style == pathStyle(p, dflt, column)
    IN  [defaults |-> IF style = Threw
                      THEN dflt
                      ELSE [dflt EXCEPT !.line[pathStyleState(p, column)] = style.value],
         style |-> p.style]
pathStyleShared(p, dflt, column) ==
    [defaults |-> dflt, style |-> p.style]

\* The columns of the pathStyle calls of one render(), in call order: one per
\* segment of each entry of `columns`.
RECURSIVE PathStyleCalls(_, _)
PathStyleCalls(p, i) ==
    IF i > Len(p.columns.items)
    THEN << >>
    ELSE LET column == p.columns.items[i]
         IN  [k \in 1..Len(SegmentsOf(p, column)) |-> column]
                 \o PathStyleCalls(p, i + 1)

\* The shared objects after the calls, each call working on what the one
\* before it left; a call that throws ends the render.
RECURSIVE SharedAfterCalls(_, _, _)
SharedAfterCalls(p, dflt, calls) ==
    IF calls = << >>
    THEN [defaults |-> dflt, style |-> p.style]
    ELSE LET after == pathStyleShared(p, dflt, Head(calls))
         IN  IF pathStyle(p, dflt, Head(calls)) = Threw
             THEN after
             ELSE SharedAfterCalls([p EXCEPT !.style = after.style],
                                   after.defaults, Tail(calls))

\* The shared objects after render().
renderShared(p, dflt) == SharedAfterCalls(p, dflt, PathStyleCalls(p, 1))

NotRendered == [status |-> "none"]

(***************************************************************************)
(* Re-render suppression.                                                  *)
(***************************************************************************)
\* A scale function: the object (id) and the string scaleAsString gives it.
Scale(id, str) == [id |-> id, str |-> str]

\* import { scaleAsString } from "./util"
scaleAsString(scale) == scale.str

\* TimeSeries.is(series1, series2): structural equality of two series.
TimeSeriesIs(series1, series2) == series1 = series2

\* props.columns is an array: `!==` compares the array objects (ref), not
\* their items.
ColumnsArray(ref, items) == [ref |-> ref, items |-> items]
SameArray(c1, c2) == c1.ref = c2.ref

shouldComponentUpdateNoColumns(p, nextProps) ==
    \/ p.width # nextProps.width
    \/ (IF Size(p.series) # Size(nextProps.series)
        THEN TRUE
        ELSE ~TimeSeriesIs(p.series, nextProps.series))
    \/ scaleAsString(p.timeScale) # scaleAsString(nextProps.timeScale)
    \/ p.yScale.id # nextProps.yScale.id
    \/ p.interpolation # nextProps.interpolation
    \/ p.highlight # nextProps.highlight
    \/ p.selection # nextProps.selection
shouldComponentUpdate(p, nextProps) ==
    LET widthChanged == p.width # nextProps.width
        timeScaleChanged ==
            scaleAsString(p.timeScale) # scaleAsString(nextProps.timeScale)
        yAxisScaleChanged == p.yScale.id # nextProps.yScale.id
        interpolationChanged == p.interpolation # nextProps.interpolation
        highlightChanged == p.highlight # nextProps.highlight
        selectionChanged == p.selection # nextProps.selection
        columnsChanged == ~SameArray(p.columns, nextProps.columns)
        seriesChanged ==
            IF Size(p.series) # Size(nextProps.series)
            THEN TRUE
            ELSE ~TimeSeriesIs(p.series, nextProps.series)
    IN  \/ widthChanged
        \/ seriesChanged
        \/ timeScaleChanged
        \/ yAxisScaleChanged
        \/ interpolationChanged
        \/ highlightChanged
        \/ selectionChanged
        \/ columnsChanged

(***************************************************************************)
(* Pointer handlers.  A handler leaves this.props as it found it and has   *)
(* effects: calls of the callback props and of e.stopPropagation().        *)
(***************************************************************************)
JsNull == [t |-> "null", s |-> ""]
Effect(op, arg) == [op |-> op, arg |-> arg]
Handled(p, eff) == [props |-> p, effects |-> eff]

handleHover(p, column) ==
    IF p.onHighlightChange
    THEN Handled(p, << Effect("onHighlightChange", Str(column)) >>)
    ELSE Handled(p, << >>)

handleHoverLeave(p) ==
    IF p.onHighlightChange
    THEN Handled(p, << Effect("onHighlightChange", JsNull) >>)
    ELSE Handled(p, << >>)

handleClickSelects(p, column) ==
    Handled([p EXCEPT !.selection = Str(column)],
            << Effect("stopPropagation", JsNull) >>
            \o (IF p.onSelectionChange
                THEN << Effect("onSelectionChange", Str(column)) >>
                ELSE << >>))
handleClick(p, column) ==
    Handled(p,
            << Effect("stopPropagation", JsNull) >>
            \o (IF p.onSelectionChange
                THEN << Effect("onSelectionChange", Str(column)) >>
                ELSE << >>))

(***************************************************************************)
(* LabelAxis.  Numbers of the axis scale (min, max) are in thousandths.    *)
(***************************************************************************)
DefaultValWidth == 40
ScalePadding == 3
MinLabelYPos == 10
ValueListGap == 2

NotGiven == [given |-> FALSE]
Some(v) == [given |-> TRUE, v |-> v]

\* static defaultProps: a prop left out (undefined) takes its default.
OrDefault(opt, dflt) == IF opt.given THEN opt.v ELSE dflt

\* The `values` prop: an array, or null passed explicitly.
ValuesArray(items) == [t |-> "array", items |-> items]
ValuesNull == [t |-> "null", items |-> << >>]

LabelAxisDefaults(given) ==
    [label |-> given.label,
     hideScale |-> OrDefault(given.hideScale, FALSE),
     values |-> OrDefault(given.values, ValuesArray(<< >>)),
     valWidth |-> OrDefault(given.valWidth, DefaultValWidth),
     format |-> OrDefault(given.format, ".2f"),
     max |-> given.max,
     min |-> given.min,
     width |-> given.width,
     height |-> given.height]

\* Math.round of a quotient n / d, d > 0: halves round up.
RoundDiv(n, d) == (2 * n + d) \div (2 * d)

Abs(n) == IF n < 0 THEN -n ELSE n

\* format(fmt)(v) of d3-format for the fixed-point specifiers: v (in
\* thousandths) rounded to the specifier's number of decimals.
Decimals(fmt) == CASE fmt = ".0f" -> 0 [] fmt = ".1f" -> 1 [] OTHER -> 2
UnitOf(fmt) == CASE fmt = ".0f" -> 1000 [] fmt = ".1f" -> 100 [] OTHER -> 10
Format(fmt, v) ==
    LET r == RoundDiv(Abs(v), UnitOf(fmt))
        one == 1000 \div UnitOf(fmt)
    IN  [neg |-> v < 0 /\ r # 0,
         whole |-> r \div one,
         frac |-> r % one,
         decimals |-> Decimals(fmt)]

scaleTextStyle == [fontSize |-> "11", textAnchor |-> "start", fill |-> "#bdbdbd"]

\* renderAxis(): the <g> of the scale annotations, as its list of <text>.
renderAxisMinFirst(p) ==
    LET rectWidth == p.width - p.valWidth
        valXPos == rectWidth + ScalePadding
    IN  IF p.hideScale
        THEN << >>
        ELSE << [x |-> valXPos, y |-> 0, dy |-> "1.2em", style |-> scaleTextStyle,
                 text |-> Format(p.format, p.min)],
                [x |-> valXPos, y |-> p.height, dy |-> "", style |-> scaleTextStyle,
                 text |-> Format(p.format, p.max)] >>
renderAxis(p) ==
    LET valueWidth == p.valWidth
        rectWidth == p.width - valueWidth
        valXPos == rectWidth + ScalePadding
        maxStr == Format(p.format, p.max)
        minStr == Format(p.format, p.min)
    IN  IF p.hideScale
        THEN << >>
        ELSE << [x |-> valXPos, y |-> 0, dy |-> "1.2em", style |-> scaleTextStyle,
                 text |-> maxStr],
                [x |-> valXPos, y |-> p.height, dy |-> "", style |-> scaleTextStyle,
                 text |-> minStr] >>

\* if (this.props.values): an array, even an empty one, is truthy.
ValuesTruthy(values) == values.t = "array"

Max(a, b) == IF a > b THEN a ELSE b

titleTextStyle == [fontSize |-> "12", textAnchor |-> "middle", fill |-> "#838383"]

\* LabelAxis.render()
LabelAxisRender(p) ==
    LET valueWidth == p.valWidth
        rectWidth == p.width - valueWidth
        hasValues == ValuesTruthy(p.values)
        labelYPos ==
            IF hasValues
            THEN Max(RoundDiv(p.height, 4), MinLabelYPos)
            ELSE RoundDiv(p.height, 2)
        valueList ==
            IF hasValues
            THEN [rendered |-> TRUE, values |-> p.values.items, width |-> rectWidth]
            ELSE [rendered |-> FALSE, values |-> << >>, width |-> 0]
    IN  [rect |-> [x |-> 0, y |-> 0, width |-> rectWidth, height |-> p.height],
         title |-> [x |-> RoundDiv(rectWidth, 2), y |-> labelYPos,
                    style |-> titleTextStyle, text |-> p.label],
         valueListY |-> labelYPos + ValueListGap,
         valueList |-> valueList,
         axis |-> renderAxis(p)]

(***************************************************************************)
(* The props the specifications draw from.                                 *)
(***************************************************************************)
AB == [a |-> Num(1), b |-> Num(2)]
ANull == [a |-> Num(3), b |-> Null]

Series1 == MkSeries(<<AB, AB>>)
Series2 == MkSeries(<<AB, ANull>>)
Series3 == MkSeries(<<AB, AB, ANull>>)

FullObject == StyleObject([c \in Columns |-> FullChannel(c)])
FlatObject == StyleObject([c \in Columns |-> FlatChannel(c)])
OnlyA == StyleObject([c \in Columns |-> IF c = "a" THEN FullChannel(c) ELSE UndefinedStyle])
ClickableObject == StyleObject([c \in Columns |-> ClickableChannel(c)])
AStyler == StylerInstance([c \in Columns |-> FullChannel(c)])
AFunction == StyleFunction([c \in Columns |-> FullChannel(c)])

BaseProps ==
    [width |-> 100,
     series |-> Series1,
     timeScale |-> Scale(1, "0,10-0,100"),
     yScale |-> Scale(1, "0,5-50,0"),
     interpolation |-> "curveLinear",
     highlight |-> NoName,
     selection |-> NoName,
     columns |-> ColumnsArray(1, <<"a", "b">>),
     breakLine |-> TRUE,
     style |-> FullObject,
     onHighlightChange |-> TRUE,
     onSelectionChange |-> TRUE]

Fields ==
    {"width", "series", "timeScale", "yScale", "interpolation", "highlight",
     "selection", "columns", "breakLine", "style"}

FieldValues(f) ==
    CASE f = "width" -> {100, 200}
      [] f = "series" -> {Series1, Series2, Series3}
      [] f = "timeScale" ->
            {Scale(1, "0,10-0,100"), Scale(2, "0,10-0,100"), Scale(3, "0,10-0,200")}
      [] f = "yScale" -> {Scale(1, "0,5-50,0"), Scale(2, "0,5-50,0")}
      [] f = "interpolation" -> {"curveLinear", "curveBasis"}
      [] f = "highlight" -> {NoName, Str("a")}
      [] f = "selection" -> {NoName, Str("b")}
      [] f = "columns" ->
            {ColumnsArray(1, <<"a", "b">>), ColumnsArray(2, <<"a", "b">>),
             ColumnsArray(3, <<"b">>)}
      [] f = "breakLine" -> BOOLEAN
      [] f = "style" -> {FullObject, FlatObject}

\* The props that differ from p in at most n fields.
RECURSIVE Varied(_, _)
Varied(p, n) ==
    IF n = 0
    THEN {p}
    ELSE LET before == Varied(p, n - 1)
         IN  before \cup
             UNION { UNION { {[q EXCEPT ![f] = v] : v \in FieldValues(f)} : f \in Fields }
                     : q \in before }

LifeProps == Varied(BaseProps, MaxVaried)

Names == {NoName, Str(""), Str("a"), Str("b"), Str("c")}

StyleSources ==
    {FullObject, FlatObject, ClickableObject, OnlyA, AStyler, AFunction, NoStyle}

StyleProps ==
    { [BaseProps EXCEPT !.selection = sel, !.highlight = hl, !.style = st,
                        !.columns = ColumnsArray(1, cols), !.series = ser,
                        !.breakLine = bl]
      : sel \in Names, hl \in Names, st \in StyleSources,
        cols \in {<<"a", "b">>, <<"b", "b">>},
        ser \in {MkSeries(<< >>), Series1, Series2}, bl \in BOOLEAN }

\* The props of the segmentation specification: a series, breakLine, columns.
SegProps(series, breakLine, items) ==
    [BaseProps EXCEPT !.series = series, !.breakLine = breakLine,
                      !.columns = ColumnsArray(1, items)]

EventProps ==
    { [BaseProps EXCEPT !.onHighlightChange = oh, !.onSelectionChange = os,
                        !.series = ser, !.highlight = hl, !.selection = sel]
      : oh \in BOOLEAN, os \in BOOLEAN, ser \in {Series1, Series2},
        hl \in {NoName, Str("a")}, sel \in {NoName, Str("b")} }

BaseAxisGiven ==
    [label |-> "Traffic", hideScale |-> NotGiven, values |-> NotGiven,
     valWidth |-> NotGiven, format |-> NotGiven, max |-> 100456, min |-> 0,
     width |-> 100, height |-> 50]

AxisGiven ==
    { [BaseAxisGiven EXCEPT !.hideScale = hs, !.values = vs, !.valWidth = vw,
                            !.format = fm, !.max = mx, !.min = mn,
                            !.width = w, !.height = h]
      : hs \in {NotGiven, Some(TRUE), Some(FALSE)},
        vs \in {NotGiven, Some(ValuesArray(<< >>)), Some(ValuesNull),
                Some(ValuesArray(<<[label |-> "Max", value |-> "100 Gbps"]>>))},
        vw \in {NotGiven, Some(30)},
        fm \in {NotGiven, Some(".0f")},
        mx \in {100456, 2250},
        mn \in {0, -1500},
        w \in {100, 140},
        h \in {50, 18, 30} }

\* Before any update, and after shouldComponentUpdate returned `result`.
NoScu == [called |-> FALSE, result |-> FALSE]
ScuReturned(result) == [called |-> TRUE, result |-> result]

(***************************************************************************)
(* The LineChart's life: mounted with its first props, then updated with   *)
(* the next props as often as the parent passes new ones; pointer events   *)
(* reach the hit-target strokes of what is displayed.                      *)
(***************************************************************************)
NotMounted ==
    /\ displayed = NotRendered
    /\ scu = NoScu
    /\ defaultStyle = DefaultLineChartChannelStyle
    /\ events = << >>
    /\ effects = << >>

LineInit(P) ==
    /\ props \in P
    /\ NotMounted

AxisIdle ==
    /\ axisProps = LabelAxisDefaults(BaseAxisGiven)
    /\ axisOut = NotRendered

\* The first render.
Mount ==
    /\ displayed = NotRendered
    /\ displayed' = render(props, defaultStyle)
    /\ LET after == renderShared(props, defaultStyle)
       IN  /\ props' = [props EXCEPT !.style = after.style]
           /\ defaultStyle' = after.defaults
    /\ UNCHANGED <<scu, events, effects>>
    /\ UNCHANGED axisVars

\* The parent passes nextProps: shouldComponentUpdate decides whether render
\* runs; this.props becomes nextProps either way.
Update(nextProps) ==
    /\ displayed.status = "ok"
    /\ scu' = ScuReturned(shouldComponentUpdate(props, nextProps))
    /\ displayed' = IF scu'.result THEN render(nextProps, defaultStyle) ELSE displayed
    /\ LET after == IF scu'.result
                    THEN renderShared(nextProps, defaultStyle)
                    ELSE [defaults |-> defaultStyle, style |-> nextProps.style]
       IN  /\ props' = [nextProps EXCEPT !.style = after.style]
           /\ defaultStyle' = after.defaults
    /\ UNCHANGED <<events, effects>>
    /\ UNCHANGED axisVars

\* The columns of the hit-target strokes on display.
HitColumns ==
    IF displayed.status = "ok"
    THEN UNION { { displayed.value[i].pathLines[j].hit.onMouseMove :
                      j \in DOMAIN displayed.value[i].pathLines }
                 : i \in DOMAIN displayed.value }
    ELSE {}

PointerEvent(type, column) == [type |-> type, column |-> column]

\* onMouseMove={e => this.handleHover(e, column)}
MouseMove(column) ==
    /\ Len(events) < MaxEvents
    /\ column \in HitColumns
    /\ LET h == handleHover(props, column)
       IN  /\ props' = h.props
           /\ effects' = effects \o h.effects
    /\ events' = Append(events, PointerEvent("mousemove", column))
    /\ UNCHANGED <<displayed, scu, defaultStyle>>
    /\ UNCHANGED axisVars

\* onMouseLeave={() => this.handleHoverLeave()}
MouseLeave(column) ==
    /\ Len(events) < MaxEvents
    /\ column \in HitColumns
    /\ LET h == handleHoverLeave(props)
       IN  /\ props' = h.props
           /\ effects' = effects \o h.effects
    /\ events' = Append(events, PointerEvent("mouseleave", column))
    /\ UNCHANGED <<displayed, scu, defaultStyle>>
    /\ UNCHANGED axisVars

\* onClick={e => this.handleClick(e, column)}
Click(column) ==
    /\ Len(events) < MaxEvents
    /\ column \in HitColumns
    /\ LET h == handleClick(props, column)
       IN  /\ props' = h.props
           /\ effects' = effects \o h.effects
    /\ events' = Append(events, PointerEvent("click", column))
    /\ UNCHANGED <<displayed, scu, defaultStyle>>
    /\ UNCHANGED axisVars

LineIdle ==
    /\ props = BaseProps
    /\ NotMounted

\* LabelAxis is rendered with its props, defaults filled in.
AxisRender ==
    /\ axisOut = NotRendered
    /\ axisOut' = Returned(LabelAxisRender(axisProps))
    /\ UNCHANGED axisProps
    /\ UNCHANGED lineVars

(***************************************************************************)
(* Specifications.                                                         *)
(***************************************************************************)
\* The life of a LineChart under prop updates.
Init == LineInit(LifeProps) /\ AxisIdle
Next == Mount \/ \E nextProps \in LifeProps : Update(nextProps)
Spec == Init /\ [][Next]_vars

\* Segmentation: every series up to MaxLen events, drawn once.
InitSeg ==
    /\ \E k \in 0..MaxLen : \E rows \in [1..k -> Rows] :
          \E breakLine \in BOOLEAN : \E items \in {<<"a", "b">>, <<"b">>} :
              props = SegProps(MkSeries(rows), breakLine, items)
    /\ NotMounted
    /\ AxisIdle
NextSeg == Mount
SpecSeg == InitSeg /\ [][NextSeg]_vars

\* Style resolution: every style source, selection and highlight, drawn once.
InitStyle == LineInit(StyleProps) /\ AxisIdle
NextStyle == Mount
SpecStyle == InitStyle /\ [][NextStyle]_vars

\* Pointer events on a mounted chart.
InitEvents == LineInit(EventProps) /\ AxisIdle
NextEvents ==
    \/ Mount
    \/ \E column \in Columns : MouseMove(column)
    \/ \E column \in Columns : MouseLeave(column)
    \/ \E column \in Columns : Click(column)
SpecEvents == InitEvents /\ [][NextEvents]_vars

\* LabelAxis, rendered once with each set of props.
InitAxis ==
    /\ LineIdle
    /\ axisProps \in {LabelAxisDefaults(g) : g \in AxisGiven}
    /\ axisOut = NotRendered
NextAxis == AxisRender
SpecAxis == InitAxis /\ [][NextAxis]_vars

(***************************************************************************)
(* What the claims speak of, stated apart from the code's loops.           *)
(***************************************************************************)
\* A good point: its value is a finite number.
GoodAt(series, i, column) ==
    Get(series[i], column) \notin {Null, NaN, PosInf, NegInf, Undefined}

\* The maximal runs <<first, last>> of consecutive good points.
MaximalRuns(series, column) ==
    { r \in (1..Len(series)) \X (1..Len(series)) :
        /\ r[1] <= r[2]
        /\ \A k \in r[1]..r[2] : GoodAt(series, k, column)
        /\ r[1] = 1 \/ ~GoodAt(series, r[1] - 1, column)
        /\ r[2] = Len(series) \/ ~GoodAt(series, r[2] + 1, column) }

LongRuns(series, column) ==
    { r \in MaximalRuns(series, column) : r[2] - r[1] + 1 >= 2 }

\* The point drawn for event i: the middle of its interval, and its value.
PointAt(series, i, column) ==
    [x |-> (series[i].key.begin + series[i].key.end) \div 2,
     y |-> series[i].data[column].v]

RunPoints(series, r, column) ==
    [k \in 1..(r[2] - r[1] + 1) |-> PointAt(series, r[1] + k - 1, column)]

\* The long runs in time order, as point lists.
ExpectedBreakSegments(series, column) ==
    LET long == LongRuns(series, column)
        nth(m) == CHOOSE r \in long : Cardinality({q \in long : q[1] < r[1]}) = m - 1
    IN  [m \in 1..Cardinality(long) |-> RunPoints(series, nth(m), column)]

\* All good points in time order.
ExpectedCleanSegment(series, column) ==
    LET good == {i \in 1..Len(series) : GoodAt(series, i, column)}
        nth(m) == CHOOSE i \in good : Cardinality({j \in good : j < i}) = m - 1
    IN  [m \in 1..Cardinality(good) |-> PointAt(series, nth(m), column)]

\* The points a displayed path was drawn through, read back from its `d`.
DrawnPoints(el) ==
    [k \in 1..Len(el.visible.d.pts) |->
        [x |-> el.visible.d.pts[k][1].of, y |-> el.visible.d.pts[k][2].of]]

\* The segments of a displayed column group, in order.
EmittedSegments(group) ==
    [m \in 1..Len(group.pathLines) |-> DrawnPoints(group.pathLines[m])]

Rendered == displayed.status = "ok"
ColumnAt(i) == props.columns.items[i]

\* C1: with breakLine = true, the segments emitted for each column are exactly
\* the maximal runs of consecutive good points of length >= 2, in time order,
\* each once; shorter runs and bad points emit nothing.
C1_BreakLineEmitsLongRuns ==
    (Rendered /\ props.breakLine) =>
        \A i \in DOMAIN displayed.value :
            EmittedSegments(displayed.value[i])
                = ExpectedBreakSegments(props.series, ColumnAt(i))

\* Two runs of two points around a bad point, as in [1, 2, bad, 4, 5].
C1_Witness ==
    /\ Rendered /\ props.breakLine
    /\ Len(props.series) = 5
    /\ \E i \in DOMAIN displayed.value :
          /\ Len(displayed.value[i].pathLines) = 2
          /\ ~GoodAt(props.series, 3, ColumnAt(i))

\* C2: with breakLine = false, each column emits exactly one segment: all good
\* points of the series in time order, bad points skipped, even when that
\* leaves 0 or 1 points.
C2_NoBreakEmitsOneSegment ==
    (Rendered /\ ~props.breakLine) =>
        \A i \in DOMAIN displayed.value :
            EmittedSegments(displayed.value[i])
                = << ExpectedCleanSegment(props.series, ColumnAt(i)) >>

\* A bad point skipped inside the one segment, and a segment of one point.
C2_Witness ==
    /\ Rendered /\ ~props.breakLine
    /\ Len(props.series) = 5
    /\ \E i \in DOMAIN displayed.value :
          /\ ~GoodAt(props.series, 3, ColumnAt(i))
          /\ Len(EmittedSegments(displayed.value[i])[1]) = 4
    /\ \E i \in DOMAIN displayed.value :
          Len(EmittedSegments(displayed.value[i])[1]) <= 1

NoBadValues(series, column) == \A k \in 1..Len(series) : GoodAt(series, k, column)

\* What the column would emit with breakLine set to bl, the rest unchanged.
SegmentsWith(bl, column) ==
    LET segs == SegmentsOf([props EXCEPT !.breakLine = bl], column)
    IN  [m \in 1..Len(segs) |-> segs[m].data]

SameSingleSegment(i) ==
    /\ Len(displayed.value[i].pathLines) = 1
    /\ EmittedSegments(displayed.value[i]) = SegmentsWith(~props.breakLine, ColumnAt(i))

\* C3 as stated: for every series without bad values in a column, the empty
\* series and the series of one record included, breakLine = true and
\* breakLine = false emit the same single segment for the column.
C3_AsStated ==
    Rendered =>
        \A i \in DOMAIN displayed.value :
            NoBadValues(props.series, ColumnAt(i)) => SameSingleSegment(i)

\* C3: for every series of at least two records without bad values in a
\* column, breakLine = true and breakLine = false emit the same single segment
\* for the column; for the empty series and the series of one record,
\* breakLine = true emits no segment and breakLine = false one segment of 0 or
\* 1 points.
C3_SameSegmentFromTwoRecords ==
    Rendered =>
        \A i \in DOMAIN displayed.value :
            NoBadValues(props.series, ColumnAt(i)) =>
                IF Len(props.series) >= 2
                THEN SameSingleSegment(i)
                ELSE /\ SegmentsWith(TRUE, ColumnAt(i)) = << >>
                     /\ Len(SegmentsWith(FALSE, ColumnAt(i))) = 1
                     /\ Len(SegmentsWith(FALSE, ColumnAt(i))[1]) = Len(props.series)
                     /\ EmittedSegments(displayed.value[i])
                            = SegmentsWith(props.breakLine, ColumnAt(i))

C3_Witness ==
    /\ Rendered /\ props.breakLine
    /\ Len(props.series) = 3
    /\ \E i \in DOMAIN displayed.value :
          /\ NoBadValues(props.series, ColumnAt(i))
          /\ Len(EmittedSegments(displayed.value[i])[1]) = 3

(***************************************************************************)
(* Style resolution.                                                       *)
(***************************************************************************)
\* A selection (a highlight) is set when the prop holds a column name; the
\* prop left out, or the empty string, is no selection.
IsSet(x) == x \notin {NoName, Str("")}

\* The style of state st for a column: the built-in default of the state
\* overlaid with the caller's entries for it, pointer events off.
StyleOfState(column, st) ==
    LET m == providedPathStyleMap(props, column)
        bundle == IF m.line.has THEN m.line.states ELSE m.own
    IN  SetPointerEvents(
            Merge(DefaultLineChartChannelStyle.line[st],
                  IF bundle[st].has THEN bundle[st].attrs ELSE << >>),
            "none")

\* Every visible stroke on display has the style of the state `state` names
\* for its column.
StrokesResolveTo(state(_)) ==
    \A i \in DOMAIN displayed.value :
        \A j \in DOMAIN displayed.value[i].pathLines :
            displayed.value[i].pathLines[j].visible.style
                = StyleOfState(ColumnAt(i), state(ColumnAt(i)))

SelectedElseMuted(column) ==
    IF props.selection = Str(column) THEN "selected" ELSE "muted"

\* C4: whenever a selection is set, the selected column resolves to `selected`
\* and every other column to `muted`, even when it equals `highlight`.
C4_SelectedElseMuted ==
    (Rendered /\ IsSet(props.selection)) => StrokesResolveTo(SelectedElseMuted)

Precedence(column) ==
    IF IsSet(props.selection) /\ props.selection = Str(column) THEN "selected"
    ELSE IF IsSet(props.highlight) /\ props.highlight = Str(column) THEN "highlighted"
    ELSE IF IsSet(props.selection) THEN "muted"
    ELSE "normal"

Unstyled ==
    { i \in DOMAIN props.columns.items :
        providedPathStyleMap(props, ColumnAt(i)) = UndefinedStyle }

\* C7 as stated: a render in which the style source yields no style for some
\* column of `columns` fails.
C7_AsStated ==
    (displayed # NotRendered /\ Unstyled # {}) => displayed = Threw

\* The column emits at least one segment.
Emits(column) ==
    ~props.breakLine \/ LongRuns(props.series, column) # {}

\* C7: a render in which the style source yields no style for some column of
\* `columns` fails exactly when such a column emits a segment (always with
\* breakLine = false; with breakLine = true when it has a run of two good
\* points); otherwise it returns, with an empty group for each such column
\* beside the groups of the other columns.
C7_FailsWhenUnstyledColumnDraws ==
    (displayed # NotRendered /\ Unstyled # {}) =>
        /\ displayed = Threw <=> \E i \in Unstyled : Emits(ColumnAt(i))
        /\ Rendered =>
              /\ Len(displayed.value) = Len(props.columns.items)
              /\ \A i \in DOMAIN displayed.value :
                    /\ i \in Unstyled => displayed.value[i].pathLines = << >>
                    /\ i \notin Unstyled =>
                          Len(displayed.value[i].pathLines) =
                              IF props.breakLine
                              THEN Cardinality(LongRuns(props.series, ColumnAt(i)))
                              ELSE 1

\* A render that threw with breakLine = true: "b" has no style and a run of
\* two good points.
C7_Witness ==
    /\ displayed = Threw
    /\ props.style = OnlyA /\ props.breakLine
    /\ props.columns.items = <<"a", "b">>
    /\ Unstyled = {2}
    /\ LongRuns(props.series, "b") # {}

\* What each variant of the style source holds for a column.
VariantStyle(style, column) ==
    CASE style.kind = "object" -> style.entries[column]
      [] style.kind = "Styler" -> style.lineChartStyle[column]
      [] style.kind = "function" -> style.result[column]

\* C8: for each of the three variants of the style source,
\* providedPathStyleMap(column) returns that variant's style for the column:
\* style[column], style.lineChartStyle()[column], or style(column).
C8_ResolvesEachVariant ==
    (displayed # NotRendered /\ props.style.kind \in {"object", "Styler", "function"}) =>
        \A c \in Columns :
            providedPathStyleMap(props, c) = VariantStyle(props.style, c)

\* One drawn segment: the visible stroke and the hit-target stroke.
IsTwoStrokes(el, seg, column) ==
    /\ DOMAIN el = {"key", "visible", "hit"}
    /\ el.visible.d = PathOf(props, seg.data)
    /\ el.hit.d = el.visible.d
    /\ DOMAIN el.visible = {"d", "style"}
    /\ el.visible.style.pointerEvents = "none"
    /\ DOMAIN el.hit = {"d", "style", "onClick", "onMouseLeave", "onMouseMove"}
    /\ el.hit.style.opacity = "0.0"
    /\ el.hit.style.strokeWidth = "7"
    /\ el.hit.style.cursor = "crosshair"
    /\ el.hit.style.pointerEvents = "stroke"
    /\ el.hit.onClick = column /\ el.hit.onMouseMove = column /\ el.hit.onMouseLeave

\* C13: in every render output each emitted segment is drawn as exactly two
\* strokes over the same path: a visible stroke whose style has
\* pointerEvents = none in every state, whatever the caller's style supplies,
\* and a hit-target stroke with the fixed style (opacity 0, strokeWidth 7,
\* crosshair cursor, pointerEvents = stroke) that alone carries the pointer
\* handlers; and the output has one group per entry of `columns`, in order,
\* duplicates included.
C13_TwoStrokesPerSegment ==
    Rendered =>
        /\ Len(displayed.value) = Len(props.columns.items)
        /\ \A i \in DOMAIN displayed.value :
              LET group == displayed.value[i]
                  column == props.columns.items[i]
                  segs == SegmentsOf(props, column)
              IN  /\ group.key = column
                  /\ Len(group.pathLines) = Len(segs)
                  /\ \A j \in DOMAIN group.pathLines :
                        IsTwoStrokes(group.pathLines[j], segs[j], column)

\* Column "b" listed twice and selected, the caller's selected bundle asking
\* for pointerEvents "all": two groups for "b", each stroke with "none".
C13_Witness ==
    /\ Rendered
    /\ props.columns.items = <<"b", "b">>
    /\ props.selection = Str("b")
    /\ props.style = ClickableObject
    /\ props.style.entries["b"].line.states["selected"].attrs.pointerEvents = "all"
    /\ props.series = Series1
    /\ Len(displayed.value) = 2
    /\ \A i \in 1..2 :
          /\ displayed.value[i].key = "b"
          /\ Len(displayed.value[i].pathLines) = 1
          /\ displayed.value[i].pathLines[1].visible.style.pointerEvents = "none"
          /\ displayed.value[i].pathLines[1].visible.style.stroke = "selected"
          /\ displayed.value[i].pathLines[1].hit.style.pointerEvents = "stroke"

(***************************************************************************)
(* Re-render suppression.                                                  *)
(***************************************************************************)
\* At least one of the eight tracked props differs between p and q: width,
\* series (size, then structure), time scale (as a string), value scale,
\* interpolation, highlight, selection, the columns array.
TrackedChanged(p, q) ==
    \/ p.width # q.width
    \/ Len(p.series) # Len(q.series)
    \/ p.series # q.series
    \/ p.timeScale.str # q.timeScale.str
    \/ p.yScale.id # q.yScale.id
    \/ p.interpolation # q.interpolation
    \/ p.highlight # q.highlight
    \/ p.selection # q.selection
    \/ p.columns.ref # q.columns.ref

\* C6: shouldComponentUpdate(nextProps) returns true if and only if at least
\* one of the eight tracked props changed between the current and the next
\* props; false when none did, true when the series size differs.
C6_UpdatesIffTrackedChanged ==
    [][ displayed # NotRendered =>
            /\ scu' = ScuReturned(TrackedChanged(props, props'))
            /\ Len(props.series) # Len(props'.series) => scu'.result ]_vars

\* An update that changed nothing tracked (breakLine alone) and was suppressed.
C6_Witness ==
    /\ scu = ScuReturned(FALSE)
    /\ props = [BaseProps EXCEPT !.breakLine = FALSE]
    /\ Rendered

\* C11: re-render suppression never leaves stale output: whenever
\* shouldComponentUpdate returns false for the next props, render with the
\* next props gives the same output as render with the current props, so
\* after every update the lines on display are render of the latest props
\* (also after a change to breakLine or style alone).
C11_SuppressionNeverStale ==
    /\ [](Rendered => displayed = render(props, defaultStyle))
    /\ [][ (displayed # NotRendered /\ scu' = ScuReturned(FALSE)) =>
               render(props', defaultStyle) = render(props, defaultStyle) ]_vars

ExpectedEffects(e) ==
    CASE e.type = "mousemove" ->
            IF props.onHighlightChange
            THEN << [op |-> "onHighlightChange", arg |-> Str(e.column)] >>
            ELSE << >>
      [] e.type = "mouseleave" ->
            IF props.onHighlightChange
            THEN << [op |-> "onHighlightChange", arg |-> JsNull] >>
            ELSE << >>
      [] e.type = "click" ->
            IF props.onSelectionChange
            THEN << [op |-> "stopPropagation", arg |-> JsNull],
                    [op |-> "onSelectionChange", arg |-> Str(e.column)] >>
            ELSE << [op |-> "stopPropagation", arg |-> JsNull] >>

RECURSIVE ExpectedEffectsOf(_)
ExpectedEffectsOf(es) ==
    IF es = << >>
    THEN << >>
    ELSE ExpectedEffectsOf(SubSeq(es, 1, Len(es) - 1)) \o ExpectedEffects(es[Len(es)])

\* C9: for any sequence of pointer events on the hit-target strokes, the
\* handlers' effects are, in event order, onHighlightChange(column) for a mouse
\* move, onHighlightChange(null) for a mouse leave, and stopPropagation then
\* onSelectionChange(column) for a click; an absent callback is not called;
\* and no handler changes the component's highlight or selection.
C9_HandlersReportInOrder ==
    /\ [](effects = ExpectedEffectsOf(events))
    /\ [][ /\ props'.highlight = props.highlight
           /\ props'.selection = props.selection ]_vars

\* A click with onSelectionChange given, a move, and a leave, in that order.
C9_Witness ==
    /\ props.onSelectionChange /\ props.onHighlightChange
    /\ events = << PointerEvent("click", "a"), PointerEvent("mousemove", "b"),
                   PointerEvent("mouseleave", "b") >>
    /\ effects = << Effect("stopPropagation", JsNull),
                    Effect("onSelectionChange", Str("a")),
                    Effect("onHighlightChange", Str("b")),
                    Effect("onHighlightChange", JsNull) >>

(***************************************************************************)
(* LabelAxis.                                                              *)
(***************************************************************************)
\* C10: LabelAxis with hideScale = true renders no min/max text; with
\* hideScale = false it renders exactly two: the formatted max at the top
\* (y = 0) and the formatted min at the bottom (y = height), both at
\* x = (width - valWidth) + 3.
C10_ScaleAnnotations ==
    axisOut # NotRendered =>
        LET texts == axisOut.value.axis
        IN  IF axisProps.hideScale
            THEN texts = << >>
            ELSE /\ Len(texts) = 2
                 /\ texts[1].y = 0
                 /\ texts[1].text = Format(axisProps.format, axisProps.max)
                 /\ texts[2].y = axisProps.height
                 /\ texts[2].text = Format(axisProps.format, axisProps.min)
                 /\ \A k \in 1..2 :
                       texts[k].x = (axisProps.width - axisProps.valWidth) + 3

\* max = 100.456 shown as 100.46 at the top, min = -1.5 as -1.50 at the bottom.
C10_Witness ==
    /\ axisOut # NotRendered
    /\ ~axisProps.hideScale
    /\ axisProps.max = 100456 /\ axisProps.min = -1500
    /\ axisProps.valWidth = 40 /\ axisProps.width = 100
    /\ axisOut.value.axis[1].text = [neg |-> FALSE, whole |-> 100, frac |-> 46, decimals |-> 2]
    /\ axisOut.value.axis[2].text = [neg |-> TRUE, whole |-> 1, frac |-> 50, decimals |-> 2]
    /\ axisOut.value.axis[1].x = 63

\* Auxiliary values are given: `values` is a list with at least one entry
\* (not null, not the default empty list, not an empty list).
ValuesGiven == axisProps.values.t = "array" /\ axisProps.values.items # << >>

\* C14: LabelAxis places its title at y = max(round(height/4), 10) when
\* auxiliary values are given and at y = round(height/2) when none are given
\* (also when `values` is left at its default or is an empty list), places
\* the value-list block at vertical offset title y + 2, and gives the label
\* region the width (width - valWidth).
C14_TitleLayout ==
    axisOut # NotRendered =>
        LET out == axisOut.value
            quarter == RoundDiv(axisProps.height, 4)
        IN  /\ out.title.y = IF ValuesGiven
                             THEN (IF quarter > 10 THEN quarter ELSE 10)
                             ELSE RoundDiv(axisProps.height, 2)
            /\ out.valueListY = out.title.y + 2
            /\ out.rect.width = axisProps.width - axisProps.valWidth

====
